---- MODULE Spec2Model ----
(***************************************************************************)
(* Model of the deterministic tools of backend/adk_agent.py:               *)
(*   suggest_study_schedule_tool     (time-slot arithmetic on strings)     *)
(*   analyze_learning_progress_tool  (percentages in binary64 floats)      *)
(* Strings that the code parses or formats are sequences of characters;    *)
(* Python floats are IEEE-754 binary64 values, kept exactly as an odd      *)
(* significand and a power of two and rounded to nearest-even after every  *)
(* operation, as the interpreter does.                                     *)
(***************************************************************************)
EXTENDS Integers, Sequences, FiniteSets, TLC

(***************************************************************************)
(* Natural numbers of any size: little-endian sequences of limbs, no       *)
(* leading zero limb, <<>> is 0.  A limb holds LimbBits bits.              *)
(***************************************************************************)
LimbBits == 15
Base == 2 ^ LimbBits
\* Width of the significand of a Python float (binary64).
MantBits == 53

RECURSIVE NatOf(_)
NatOf(n) == IF n = 0 THEN <<>> ELSE <<n % Base>> \o NatOf(n \div Base)

RECURSIVE ValOf(_)
ValOf(a) == IF a = <<>> THEN 0 ELSE Head(a) + Base * ValOf(Tail(a))

RECURSIVE Norm(_)
Norm(a) ==
    IF a = <<>> THEN <<>>
    ELSE IF a[Len(a)] = 0 THEN Norm(SubSeq(a, 1, Len(a) - 1))
    ELSE a

RECURSIVE AddN(_, _, _)
AddN(a, b, carry) ==
    IF a = <<>> /\ b = <<>> THEN (IF carry = 0 THEN <<>> ELSE <<carry>>)
    ELSE LET x == IF a = <<>> THEN 0 ELSE Head(a)
             y == IF b = <<>> THEN 0 ELSE Head(b)
             s == x + y + carry
         IN  <<s % Base>> \o AddN(IF a = <<>> THEN a ELSE Tail(a),
                                  IF b = <<>> THEN b ELSE Tail(b),
                                  s \div Base)

\* a * k + carry for a one-limb k
RECURSIVE MulSmallN(_, _, _)
MulSmallN(a, k, carry) ==
    IF a = <<>> THEN NatOf(carry)
    ELSE LET p == Head(a) * k + carry
         IN  <<p % Base>> \o MulSmallN(Tail(a), k, p \div Base)

RECURSIVE MulN(_, _)
MulN(a, b) ==
    IF a = <<>> \/ b = <<>> THEN <<>>
    ELSE Norm(AddN(MulSmallN(a, Head(b), 0), <<0>> \o MulN(a, Tail(b)), 0))

\* floor(a / d) for a one-limb d, from the most significant limb down
RECURSIVE DivSmallN(_, _, _)
DivSmallN(a, d, rem) ==
    IF a = <<>> THEN <<>>
    ELSE LET cur == rem * Base + a[Len(a)]
         IN  DivSmallN(SubSeq(a, 1, Len(a) - 1), d, cur % d) \o <<cur \div d>>

RECURSIVE BitLenSmall(_)
BitLenSmall(n) == IF n = 0 THEN 0 ELSE 1 + BitLenSmall(n \div 2)

BitLen(a) ==
    IF a = <<>> THEN 0 ELSE LimbBits * (Len(a) - 1) + BitLenSmall(a[Len(a)])

\* bit i of a, bit 0 the least significant
BitAt(a, i) ==
    LET k == (i \div LimbBits) + 1
    IN  IF k > Len(a) THEN 0 ELSE (a[k] \div (2 ^ (i % LimbBits))) % 2

ShiftRightN(a, s) ==
    LET q == s \div LimbBits
        r == s % LimbBits
    IN  IF q >= Len(a) THEN <<>>
        ELSE Norm(DivSmallN(SubSeq(a, q + 1, Len(a)), 2 ^ r, 0))

ShiftLeftN(a, s) ==
    IF a = <<>> THEN <<>>
    ELSE [i \in 1..(s \div LimbBits) |-> 0] \o MulSmallN(a, 2 ^ (s % LimbBits), 0)

\* -1, 0, 1 as a < b, a = b, a > b
RECURSIVE CmpN(_, _)
CmpN(a, b) ==
    IF Len(a) # Len(b) THEN (IF Len(a) < Len(b) THEN -1 ELSE 1)
    ELSE IF a = <<>> THEN 0
    ELSE IF a[Len(a)] # b[Len(b)] THEN (IF a[Len(a)] < b[Len(b)] THEN -1 ELSE 1)
    ELSE CmpN(SubSeq(a, 1, Len(a) - 1), SubSeq(b, 1, Len(b) - 1))

\* a / 2^s rounded to the nearest integer, ties to the even one
RoundShift(a, s) ==
    IF s = 0 THEN a
    ELSE LET q      == ShiftRightN(a, s)
             guard  == BitAt(a, s - 1)
             sticky == s > 1 /\ ShiftLeftN(ShiftRightN(a, s - 1), s - 1) # a
             up     == guard = 1 /\ (sticky \/ BitAt(q, 0) = 1)
         IN  IF up THEN AddN(q, <<>>, 1) ELSE q

(***************************************************************************)
(* A non-negative float is [m |-> significand, e |-> exponent], the value  *)
(* m * 2^e, with m odd (or m and e both zero) and m below 2^MantBits: one  *)
(* record per value, so = on records is == on floats.                      *)
(***************************************************************************)
RECURSIVE Canon(_, _)
Canon(m, e) ==
    IF m = <<>> THEN [m |-> <<>>, e |-> 0]
    ELSE IF Head(m) = 0 THEN Canon(Tail(m), e + LimbBits)
    ELSE IF Head(m) % 2 = 0 THEN Canon(ShiftRightN(m, 1), e + 1)
    ELSE [m |-> m, e |-> e]

\* the float nearest to m * 2^e (round to nearest, ties to even)
RoundFloat(m, e) ==
    LET s == IF BitLen(m) > MantBits THEN BitLen(m) - MantBits ELSE 0
    IN  Canon(RoundShift(m, s), e + s)

\* float(n) for an int n >= 0
FromInt(n) == RoundFloat(NatOf(n), 0)

\* x * y on floats
FMul(x, y) == RoundFloat(MulN(x.m, y.m), x.e + y.e)

\* FracLimbs limbs of the fraction rem / d, most significant first; the
\* remainder left over is folded in as a final sticky bit by FDivInt
FracLimbs == 5
RECURSIVE FracDiv(_, _, _)
FracDiv(rem, d, n) ==
    IF n = 0 THEN [q |-> <<>>, rem |-> rem]
    ELSE LET cur  == rem * Base
             rest == FracDiv(cur % d, d, n - 1)
         IN  [q |-> rest.q \o <<cur \div d>>, rem |-> rest.rem]

\* a / b for ints a >= 0, b > 0 (true division: the correctly rounded quotient)
FDivInt(a, b) ==
    LET f   == FracDiv(a % b, b, FracLimbs)
        m   == Norm(f.q \o NatOf(a \div b))
        e   == 0 - LimbBits * FracLimbs
    IN  IF f.rem = 0 THEN RoundFloat(m, e)
        ELSE RoundFloat(MulSmallN(m, 2, 1), e - 1)

\* x < y on floats
FLess(x, y) ==
    LET d == IF x.e < y.e THEN x.e ELSE y.e
    IN  CmpN(ShiftLeftN(x.m, x.e - d), ShiftLeftN(y.m, y.e - d)) = -1

\* round(x, 2): the float nearest to the decimal k/100 nearest to x
Round2(x) ==
    LET p == MulSmallN(x.m, 100, 0)
        k == IF x.e >= 0 THEN ShiftLeftN(p, x.e) ELSE RoundShift(p, 0 - x.e)
    IN  FDivInt(ValOf(k), 100)

(***************************************************************************)
(* Python str values that the code takes apart or builds: sequences of     *)
(* one-character strings.                                                  *)
(***************************************************************************)
Digits == <<"0", "1", "2", "3", "4", "5", "6", "7", "8", "9">>

DigitVal(c) == (CHOOSE d \in 1..10 : Digits[d] = c) - 1

\* s.split(sep): the pieces of s between the occurrences of the character sep
RECURSIVE Split(_, _)
Split(s, sep) ==
    IF \A k \in 1..Len(s) : s[k] # sep THEN <<s>>
    ELSE LET k == CHOOSE j \in 1..Len(s) :
                      s[j] = sep /\ \A h \in 1..(j - 1) : s[h] # sep
         IN  <<SubSeq(s, 1, k - 1)>> \o Split(SubSeq(s, k + 1, Len(s)), sep)

\* int(s) for a string of decimal digits
RECURSIVE ParseInt(_)
ParseInt(s) ==
    IF Len(s) = 1 THEN DigitVal(s[1])
    ELSE 10 * ParseInt(SubSeq(s, 1, Len(s) - 1)) + DigitVal(s[Len(s)])

\* str(n) for an int n >= 0, as an f-string formats it
RECURSIVE IntToStr(_)
IntToStr(n) ==
    IF n < 10 THEN <<Digits[n + 1]>>
    ELSE IntToStr(n \div 10) \o <<Digits[(n % 10) + 1]>>

AM == <<"A", "M">>
PM == <<"P", "M">>

(***************************************************************************)
(* suggest_study_schedule_tool                                             *)
(***************************************************************************)
day_mapping ==
    [Sunday |-> 0, Monday |-> 1, Tuesday |-> 2, Wednesday |-> 3,
     Thursday |-> 4, Friday |-> 5, Saturday |-> 6]

time_slots ==
    [morning   |-> << <<"9", ":", "0", "0", " ", "A", "M">>,
                      <<"1", "0", ":", "0", "0", " ", "A", "M">>,
                      <<"1", "1", ":", "0", "0", " ", "A", "M">> >>,
     afternoon |-> << <<"2", ":", "0", "0", " ", "P", "M">>,
                      <<"3", ":", "0", "0", " ", "P", "M">>,
                      <<"4", ":", "0", "0", " ", "P", "M">> >>,
     evening   |-> << <<"6", ":", "0", "0", " ", "P", "M">>,
                      <<"7", ":", "0", "0", " ", "P", "M">>,
                      <<"8", ":", "0", "0", " ", "P", "M">> >>]

hours_per_session == 2

\* dict.get(key, default)
DictGet(dict, key, default) == IF key \in DOMAIN dict THEN dict[key] ELSE default

\* mutant of WrapSuffix: the suffix of the start time is kept across 12
WrapSuffixKept(am_pm) == am_pm

\* the AM/PM suffix of the end time when the end hour passed 12
WrapSuffix(am_pm) == IF am_pm = AM THEN PM ELSE PM

\* end_time of a session that starts at start_time
EndTime(start_time) ==
    LET start_hour == ParseInt(Split(start_time, ":")[1])
        am_pm      == Split(start_time, " ")[2]
        end_hour   == start_hour + hours_per_session
    IN  IF end_hour > 12
        THEN IntToStr(end_hour - 12) \o <<":", "0", "0", " ">> \o WrapSuffix(am_pm)
        ELSE IntToStr(end_hour) \o <<":", "0", "0", " ">> \o am_pm

\* the start-time pool of a time preference
StartTimes(time_preference) ==
    DictGet(time_slots, time_preference, time_slots["morning"])

\* mutant of DayNum: an unknown weekday name has no day number
DayNumNoDefault(day_name) == DictGet(day_mapping, day_name, -1)

\* the day number of a weekday name
DayNum(day_name) == DictGet(day_mapping, day_name, 1)

\* mutant of SessionCount: one session per available hour
SessionCountPerHour(available_hours, preferred_days) ==
    LET n == IF available_hours < Len(preferred_days)
             THEN available_hours ELSE Len(preferred_days)
    IN  IF n < 0 THEN 0 ELSE n

\* mutant of SessionCount: a started session counts (hours rounded up)
SessionCountCeil(available_hours, preferred_days) ==
    LET num_sessions == (available_hours + 1) \div hours_per_session
        n == IF num_sessions < Len(preferred_days)
             THEN num_sessions ELSE Len(preferred_days)
    IN  IF n < 0 THEN 0 ELSE n

\* the number of passes of the loop: len(range(min(num_sessions, len(preferred_days))))
SessionCount(available_hours, preferred_days) ==
    LET num_sessions == available_hours \div hours_per_session
        n == IF num_sessions < Len(preferred_days)
             THEN num_sessions ELSE Len(preferred_days)
    IN  IF n < 0 THEN 0 ELSE n

\* mutant of Session: every session starts at the first time of the pool
SessionSameStart(i, preferred_days, start_times) ==
    LET day_name   == preferred_days[(i % Len(preferred_days)) + 1]
        start_time == start_times[1]
    IN  [day       |-> DayNum(day_name),
         dayName   |-> day_name,
         startTime |-> start_time,
         endTime   |-> EndTime(start_time),
         duration  |-> hours_per_session]

\* the dict appended in pass i (from 0) of the loop
Session(i, preferred_days, start_times) ==
    LET day_name   == preferred_days[(i % Len(preferred_days)) + 1]
        start_time == start_times[(i % Len(start_times)) + 1]
    IN  [day       |-> DayNum(day_name),
         dayName   |-> day_name,
         startTime |-> start_time,
         endTime   |-> EndTime(start_time),
         duration  |-> hours_per_session]

suggest_study_schedule_tool(available_hours, preferred_days, time_preference) ==
    LET start_times == StartTimes(time_preference)
        sessions == [j \in 1..SessionCount(available_hours, preferred_days) |->
                        Session(j - 1, preferred_days, start_times)]
    IN  [raised |-> FALSE,
         value  |-> [success         |-> TRUE,
                     totalHours      |-> available_hours,
                     sessionsPerWeek |-> Len(sessions),
                     schedule        |-> sessions,
                     message         |-> <<"Created ", Len(sessions),
                                           " study sessions totaling ",
                                           Len(sessions) * hours_per_session,
                                           " hours">>]]

(***************************************************************************)
(* analyze_learning_progress_tool                                          *)
(***************************************************************************)
RecReview    == "Consider reviewing your schedule to ensure you have enough time allocated"
RecBehind    == "You're slightly behind schedule. Try to catch up this week"
RecExcellent == "Excellent progress! Keep up the great work"
RecHalfway   == "You're past the halfway point. Consider increasing study intensity"

\* mutant of CompletionRate: the wrong scale factor
CompletionRatePerMille(completed_sessions, total_sessions) ==
    IF total_sessions > 0
    THEN FMul(FDivInt(completed_sessions, total_sessions), FromInt(1000))
    ELSE FromInt(0)

\* (completed_sessions / total_sessions * 100) if total_sessions > 0 else 0
CompletionRate(completed_sessions, total_sessions) ==
    IF total_sessions > 0
    THEN FMul(FDivInt(completed_sessions, total_sessions), FromInt(100))
    ELSE FromInt(0)

\* mutant of WeekProgress: floor division, current_week // total_weeks
WeekProgressFloor(current_week, total_weeks) ==
    IF total_weeks > 0
    THEN FromInt((current_week \div total_weeks) * 100)
    ELSE FromInt(0)

\* (current_week / total_weeks * 100) if total_weeks > 0 else 0
WeekProgress(current_week, total_weeks) ==
    IF total_weeks > 0
    THEN FMul(FDivInt(current_week, total_weeks), FromInt(100))
    ELSE FromInt(0)

\* does the division current_week / total_weeks of expected_completion raise?
ExpectedRaises(total_weeks) == total_weeks = 0

\* (current_week / total_weeks) * total_sessions, for total_weeks # 0
ExpectedCompletion(current_week, total_weeks, total_sessions) ==
    FMul(FDivInt(current_week, total_weeks), FromInt(total_sessions))

\* completed_sessions >= expected_completion * 0.9
OnTrack(completed_sessions, expected_completion) ==
    ~FLess(FromInt(completed_sessions), FMul(expected_completion, FDivInt(9, 10)))

\* current_week > total_weeks / 2 and completion_rate < 50
PastHalfwayAndLow(current_week, total_weeks, completion_rate) ==
    /\ FLess(FDivInt(total_weeks, 2), FromInt(current_week))
    /\ FLess(completion_rate, FromInt(50))

\* mutant of Recommendations: the four rules chained with elif
RecommendationsElif(completion_rate, on_track, current_week, total_weeks) ==
    IF FLess(completion_rate, FromInt(70)) THEN <<RecReview>>
    ELSE IF ~on_track THEN <<RecBehind>>
    ELSE IF FLess(FromInt(90), completion_rate) THEN <<RecExcellent>>
    ELSE <<>>

\* mutant of Recommendations: the third rule tests < 90 for > 90
RecommendationsFlipped(completion_rate, on_track, current_week, total_weeks) ==
    (IF FLess(completion_rate, FromInt(70)) THEN <<RecReview>> ELSE <<>>)
    \o (IF ~on_track THEN <<RecBehind>> ELSE <<>>)
    \o (IF FLess(completion_rate, FromInt(90)) THEN <<RecExcellent>> ELSE <<>>)
    \o (IF PastHalfwayAndLow(current_week, total_weeks, completion_rate)
        THEN <<RecHalfway>> ELSE <<>>)

\* the list built by the four if statements, in their order
Recommendations(completion_rate, on_track, current_week, total_weeks) ==
    (IF FLess(completion_rate, FromInt(70)) THEN <<RecReview>> ELSE <<>>)
    \o (IF ~on_track THEN <<RecBehind>> ELSE <<>>)
    \o (IF FLess(FromInt(90), completion_rate) THEN <<RecExcellent>> ELSE <<>>)
    \o (IF PastHalfwayAndLow(current_week, total_weeks, completion_rate)
        THEN <<RecHalfway>> ELSE <<>>)

\* mutant of Status: the label is taken from the rounded rate
StatusRounded(completion_rate) ==
    IF FLess(FromInt(90), Round2(completion_rate)) THEN "Excellent"
    ELSE IF FLess(FromInt(70), Round2(completion_rate)) THEN "Good"
    ELSE "Needs Attention"

\* the label of the unrounded completion_rate
Status(completion_rate) ==
    IF FLess(FromInt(90), completion_rate) THEN "Excellent"
    ELSE IF FLess(FromInt(70), completion_rate) THEN "Good"
    ELSE "Needs Attention"

analyze_learning_progress_tool(completed_sessions, total_sessions, current_week, total_weeks) ==
    IF ExpectedRaises(total_weeks)
    THEN [raised |-> TRUE, exc |-> "ZeroDivisionError"]
    ELSE
    LET completion_rate == CompletionRate(completed_sessions, total_sessions)
        week_progress   == WeekProgress(current_week, total_weeks)
        on_track == OnTrack(completed_sessions,
                        ExpectedCompletion(current_week, total_weeks, total_sessions))
    IN  [raised |-> FALSE,
         value  |-> [success           |-> TRUE,
                     completionRate    |-> Round2(completion_rate),
                     weekProgress      |-> Round2(week_progress),
                     onTrack           |-> on_track,
                     status            |-> Status(completion_rate),
                     completedSessions |-> completed_sessions,
                     totalSessions     |-> total_sessions,
                     sessionsRemaining |-> total_sessions - completed_sessions,
                     recommendations   |-> Recommendations(completion_rate, on_track,
                                               current_week, total_weeks)]]

(***************************************************************************)
(* Text of the generative model's response and its cleaning and parsing    *)
(* (generate_learning_plan_tool, get_learning_resources_tool).             *)
(***************************************************************************)
Whitespace == {" ", "\n"}

\* s with its leading whitespace removed
RECURSIVE LStrip(_)
LStrip(s) ==
    IF s # <<>> /\ Head(s) \in Whitespace THEN LStrip(Tail(s)) ELSE s

RECURSIVE RStrip(_)
RStrip(s) ==
    IF s # <<>> /\ s[Len(s)] \in Whitespace
    THEN RStrip(SubSeq(s, 1, Len(s) - 1)) ELSE s

\* s.strip()
Strip(s) == RStrip(LStrip(s))

\* s.startswith(p)
StartsWith(s, p) == Len(s) >= Len(p) /\ SubSeq(s, 1, Len(p)) = p

\* s.replace(p, ''): every occurrence of p removed, left to right
RECURSIVE Remove(_, _)
Remove(s, p) ==
    IF Len(s) < Len(p) THEN s
    ELSE IF StartsWith(s, p) THEN Remove(SubSeq(s, Len(p) + 1, Len(s)), p)
    ELSE <<Head(s)>> \o Remove(Tail(s), p)

\* the backquote character (U+0060), which a TLA+ string cannot hold
BQ == "BQ"

Fence     == <<BQ, BQ, BQ>>
FenceJson == <<BQ, BQ, BQ, "j", "s", "o", "n">>

\* "Clean markdown formatting": the if / elif on the stripped response text
CleanMarkdown(text) ==
    IF StartsWith(text, FenceJson) THEN Strip(Remove(Remove(text, FenceJson), Fence))
    ELSE IF StartsWith(text, Fence) THEN Strip(Remove(text, Fence))
    ELSE text

(***************************************************************************)
(* json.loads on strings, lists and objects.  A parse gives [ok |-> TRUE,  *)
(* v |-> value, rest |-> the text after it] or [ok |-> FALSE].  Values:    *)
(* [t |-> "str", s |-> characters], [t |-> "list", items |-> sequence],    *)
(* [t |-> "dict", items |-> function from keys to values].                 *)
(***************************************************************************)
JsonFail == [ok |-> FALSE]

\* a string literal at the head of s (s[1] is the opening quote): up to the
\* next quote, with no control character inside
JsonString(s) ==
    IF \A k \in 2..Len(s) : s[k] # "\""
    THEN JsonFail
    ELSE LET k == CHOOSE j \in 2..Len(s) :
                      s[j] = "\"" /\ \A h \in 2..(j - 1) : s[h] # "\""
         IN  IF \E h \in 2..(k - 1) : s[h] = "\n" THEN JsonFail
             ELSE [ok |-> TRUE, v |-> SubSeq(s, 2, k - 1),
                   rest |-> SubSeq(s, k + 1, Len(s))]

RECURSIVE JsonValue(_), JsonElems(_, _), JsonMembers(_, _)

JsonValue(s0) ==
    LET s == LStrip(s0)
    IN  IF s = <<>> THEN JsonFail
        ELSE IF Head(s) = "\"" THEN
            LET r == JsonString(s)
            IN  IF r.ok THEN [ok |-> TRUE, v |-> [t |-> "str", s |-> r.v],
                              rest |-> r.rest]
                ELSE JsonFail
        ELSE IF Head(s) = "[" THEN
            LET t == LStrip(Tail(s))
            IN  IF t # <<>> /\ Head(t) = "]"
                THEN [ok |-> TRUE, v |-> [t |-> "list", items |-> <<>>],
                      rest |-> Tail(t)]
                ELSE JsonElems(t, <<>>)
        ELSE IF Head(s) = "{" THEN
            LET t == LStrip(Tail(s))
            IN  IF t # <<>> /\ Head(t) = "}"
                THEN [ok |-> TRUE, v |-> [t |-> "dict", items |-> <<>>],
                      rest |-> Tail(t)]
                ELSE JsonMembers(t, <<>>)
        ELSE JsonFail

\* the elements of a list from s on, after the elements acc
JsonElems(s, acc) ==
    LET r == JsonValue(s)
    IN  IF ~r.ok THEN JsonFail
        ELSE LET t == LStrip(r.rest)
             IN  IF t = <<>> THEN JsonFail
                 ELSE IF Head(t) = "," THEN JsonElems(Tail(t), Append(acc, r.v))
                 ELSE IF Head(t) = "]"
                 THEN [ok |-> TRUE, v |-> [t |-> "list", items |-> Append(acc, r.v)],
                       rest |-> Tail(t)]
                 ELSE JsonFail

\* the members of an object from s on (whitespace skipped), after the members
\* acc; a repeated key keeps its last value
JsonMembers(s, acc) ==
    IF s = <<>> \/ Head(s) # "\"" THEN JsonFail
    ELSE LET key == JsonString(s)
         IN  IF ~key.ok THEN JsonFail
             ELSE LET t == LStrip(key.rest)
                  IN  IF t = <<>> \/ Head(t) # ":" THEN JsonFail
                      ELSE LET r == JsonValue(Tail(t))
                           IN  IF ~r.ok THEN JsonFail
                               ELSE LET u   == LStrip(r.rest)
                                        all == (key.v :> r.v) @@ acc
                                    IN  IF u = <<>> THEN JsonFail
                                        ELSE IF Head(u) = ","
                                        THEN JsonMembers(LStrip(Tail(u)), all)
                                        ELSE IF Head(u) = "}"
                                        THEN [ok |-> TRUE,
                                              v |-> [t |-> "dict", items |-> all],
                                              rest |-> Tail(u)]
                                        ELSE JsonFail

\* json.loads(text): one value, whitespace around it, nothing after it
JsonLoads(text) ==
    LET r == JsonValue(text)
    IN  IF r.ok /\ LStrip(r.rest) = <<>> THEN [ok |-> TRUE, v |-> r.v]
        ELSE JsonFail

(***************************************************************************)
(* Response texts: documents, valid and not, bare and fenced.              *)
(***************************************************************************)
\* {"a": ["b"]}
DocObject == <<"{", "\"", "a", "\"", ":", " ", "[", "\"", "b", "\"", "]", "}">>
\* ["a", "b"]
DocList == <<"[", "\"", "a", "\"", ",", " ", "\"", "b", "\"", "]">>
\* []
DocEmptyList == <<"[", "]">>
\* "json"
DocString == <<"\"", "j", "s", "o", "n", "\"">>
\* {"a": "b", "a": "c"}
DocDuplicateKey == <<"{", "\"", "a", "\"", ":", " ", "\"", "b", "\"", ",", " ", "\"", "a", "\"", ":", " ", "\"", "c", "\"", "}">>
\* {"a": "(fence)"}
DocFenceInString == <<"{", "\"", "a", "\"", ":", " ", "\"", BQ, BQ, BQ, "\"", "}">>
\* ["(fence)json"]
DocJsonFenceInString == <<"[", "\"", BQ, BQ, BQ, "j", "s", "o", "n", "\"", "]">>
\* {"a": 
DocTruncated == <<"{", "\"", "a", "\"", ":", " ">>
\* ["a",]
DocTrailingComma == <<"[", "\"", "a", "\"", ",", "]">>
\* [] ]
DocExtraData == <<"[", "]", " ", "]">>
\* json
DocProse == <<"j", "s", "o", "n">>
\* "a<newline>b"
DocNewlineInString == <<"\"", "a", "\n", "b", "\"">>
\* (the empty text)
DocNothing == <<>>

ValidDocs ==
    {DocObject, DocList, DocEmptyList, DocString, DocDuplicateKey,
     DocFenceInString, DocJsonFenceInString}
InvalidDocs ==
    {DocTruncated, DocTrailingComma, DocExtraData, DocProse, DocNewlineInString,
     DocNothing}

\* a document as the model may send it: bare, in a (fence)json fence, in a plain
\* fence, and fenced with whitespace around
Bare(doc)         == doc
InJsonFence(doc)  == FenceJson \o <<"\n">> \o doc \o <<"\n">> \o Fence
InPlainFence(doc) == Fence \o <<"\n">> \o doc \o <<"\n">> \o Fence
Padded(text)      == <<" ", "\n">> \o text \o <<"\n", " ">>

ResponseTexts ==
    UNION {{Bare(d), InJsonFence(d), InPlainFence(d), Padded(d),
            Padded(InJsonFence(d)), Padded(InPlainFence(d))} :
           d \in ValidDocs \cup InvalidDocs}

(***************************************************************************)
(* generate_learning_plan_tool and get_learning_resources_tool: one request*)
(* to the generative model, whose reply is                                 *)
(*   [kind |-> "raise", error |-> e]    generate_content raised e          *)
(*   [kind |-> "blocked", error |-> e]  response.text raised e             *)
(*   [kind |-> "text", text |-> t]      response.text is t                 *)
(***************************************************************************)
\* mutant of CaughtException: the exception leaves the function
UncaughtException(error, message) == [raised |-> TRUE, exc |-> error]

\* the except clause: the failure dict is returned
CaughtException(error, message) ==
    [raised |-> FALSE,
     value  |-> [success |-> FALSE, error |-> error, message |-> message]]

\* json.loads(text) of the stripped and cleaned response text
ParsedResponse(text) == JsonLoads(CleanMarkdown(Strip(text)))

generate_learning_plan_tool(skill, duration_weeks, reply) ==
    IF reply.kind # "text"
    THEN CaughtException(reply.error, "Failed to generate learning plan")
    ELSE LET parsed == ParsedResponse(reply.text)
         IN  IF ~parsed.ok
             THEN CaughtException("JSONDecodeError", "Failed to generate learning plan")
             ELSE [raised |-> FALSE,
                   value  |-> [success |-> TRUE,
                               plan    |-> parsed.v,
                               message |-> <<"Generated ", duration_weeks,
                                             "-week learning plan for ", skill>>]]

get_learning_resources_tool(skill, topic, reply) ==
    IF reply.kind # "text"
    THEN CaughtException(reply.error, "Failed to fetch resources")
    ELSE LET parsed == ParsedResponse(reply.text)
         IN  IF ~parsed.ok
             THEN CaughtException("JSONDecodeError", "Failed to fetch resources")
             ELSE [raised |-> FALSE,
                   value  |-> [success   |-> TRUE,
                               skill     |-> skill,
                               topic     |-> topic,
                               resources |-> parsed.v,
                               count     |-> IF parsed.v.t = "list"
                                             THEN Len(parsed.v.items) ELSE 0,
                               message   |-> <<"Found resources for ", topic>>]]

\* the result of the model-backed tool of the call c for the reply
ToolResult(c, reply) ==
    IF c.op = "generate_learning_plan_tool"
    THEN generate_learning_plan_tool(c.skill, c.duration_weeks, reply)
    ELSE get_learning_resources_tool(c.skill, c.topic, reply)

NoResult == [raised |-> FALSE, value |-> "none"]

\* mutant of AfterReply: a failed attempt is followed by a second request
AfterReplyRetry(c, reply, requests) ==
    IF ~ToolResult(c, reply).value.success /\ requests < 2
    THEN [pc |-> "model", requests |-> requests + 1, ret |-> NoResult]
    ELSE [pc |-> "done", requests |-> requests, ret |-> ToolResult(c, reply)]

\* what follows the reply to the request: the function returns, whatever the
\* reply, with the requests made so far
AfterReply(c, reply, requests) ==
    [pc |-> "done", requests |-> requests, ret |-> ToolResult(c, reply)]

(***************************************************************************)
(* chat_with_agent.  A conversation_history argument is [given |-> FALSE]  *)
(* (None) or [given |-> TRUE, items |-> the list]; context is the caller's *)
(* list object ("caller") or a list made by the call ("fresh").            *)
(***************************************************************************)
UserEntry(message) == [role |-> "user", content |-> message]
AssistantEntry(response) == [role |-> "assistant", content |-> response]

\* mutant of BuildContext: context is a copy of the given history
BuildContextCopy(conversation_history) ==
    [obj   |-> "fresh",
     items |-> IF conversation_history.given THEN conversation_history.items
               ELSE <<>>]

\* context = []; if conversation_history: context = conversation_history
BuildContext(conversation_history) ==
    IF conversation_history.given /\ conversation_history.items # <<>>
    THEN [obj |-> "caller", items |-> conversation_history.items]
    ELSE [obj |-> "fresh", items |-> <<>>]

(***************************************************************************)
(* write_markdown_file.  A str is its code points, a file or an artifact   *)
(* its bytes.  The disk is [dirs |-> the paths of the directories,         *)
(* files |-> the pairs <<path, bytes>> of the files]; a path is a string   *)
(* of characters.                                                          *)
(***************************************************************************)
\* the UTF-8 bytes of one code point
Utf8OfCodePoint(cp) ==
    IF cp < 128 THEN <<cp>>
    ELSE IF cp < 2048 THEN <<192 + (cp \div 64), 128 + (cp % 64)>>
    ELSE IF cp < 65536
    THEN <<224 + (cp \div 4096), 128 + ((cp \div 64) % 64), 128 + (cp % 64)>>
    ELSE <<240 + (cp \div 262144), 128 + ((cp \div 4096) % 64),
           128 + ((cp \div 64) % 64), 128 + (cp % 64)>>

\* content.encode("utf-8")
RECURSIVE Utf8Encode(_)
Utf8Encode(content) ==
    IF content = <<>> THEN <<>>
    ELSE Utf8OfCodePoint(Head(content)) \o Utf8Encode(Tail(content))

\* the index of the last "/" of a path, 0 if it has none
LastSlash(path) ==
    IF \A k \in 1..Len(path) : path[k] # "/" THEN 0
    ELSE CHOOSE k \in 1..Len(path) :
             path[k] = "/" /\ \A h \in (k + 1)..Len(path) : path[h] # "/"

\* s without its trailing slashes
RECURSIVE RStripSlash(_)
RStripSlash(s) ==
    IF s # <<>> /\ s[Len(s)] = "/" THEN RStripSlash(SubSeq(s, 1, Len(s) - 1)) ELSE s

\* os.path.dirname(path)
Dirname(path) ==
    LET head == SubSeq(path, 1, LastSlash(path))
    IN  IF RStripSlash(head) = <<>> THEN head ELSE RStripSlash(head)

\* os.path.dirname(filename) or "."
ParentDir(filename) ==
    IF Dirname(filename) = <<>> THEN <<".">> ELSE Dirname(filename)

\* the directory d and the directories above it, "." left out
RECURSIVE DirChain(_)
DirChain(d) ==
    IF d = <<>> \/ d = <<".">> THEN {}
    ELSE {d} \cup DirChain(Dirname(d))

\* os.makedirs(d, exist_ok=True) raises when a file is in the way
MakedirsRaises(dk, d) == \E x \in DirChain(d) : \E f \in dk.files : f[1] = x

\* the disk after os.makedirs(d, exist_ok=True)
Makedirs(dk, d) == [dk EXCEPT !.dirs = @ \cup DirChain(d)]

\* open(filename, "w") raises when filename is a directory
OpenRaises(dk, filename) == filename \in dk.dirs

\* mutant of WriteFile: nothing reaches the disk
WriteFileSkipped(dk, filename, content) == dk

\* the disk after the with block: the file holds the bytes of content
WriteFile(dk, filename, content) ==
    [dk EXCEPT !.files = {f \in @ : f[1] # filename}
                             \cup {<<filename, Utf8Encode(content)>>}]

\* lines 22 to 26: the parent directories, then the file
WriteToDisk(dk, filename, content) ==
    IF MakedirsRaises(dk, ParentDir(filename))
    THEN [pc |-> "done", disk |-> dk,
          ret |-> [raised |-> TRUE, exc |-> "FileExistsError"]]
    ELSE IF OpenRaises(Makedirs(dk, ParentDir(filename)), filename)
    THEN [pc |-> "done", disk |-> Makedirs(dk, ParentDir(filename)),
          ret |-> [raised |-> TRUE, exc |-> "IsADirectoryError"]]
    ELSE [pc |-> "save",
          disk |-> WriteFile(Makedirs(dk, ParentDir(filename)), filename, content),
          ret |-> NoResult]

\* the artifact store after save_artifact(filename, part): the latest version
\* of filename is the bytes of content
SaveArtifact(store, filename, content) ==
    {a \in store : a[1] # filename} \cup {<<filename, Utf8Encode(content)>>}

\* the dict that write_markdown_file returns
WriteStatus(filename, content) ==
    [raised |-> FALSE,
     value  |-> [status |-> "ok", filename |-> filename,
                 bytes |-> Len(Utf8Encode(content))]]

(***************************************************************************)
(* The tools as called by the agent framework: one call at a time, with    *)
(* arguments of the declared types, and the result handed back.            *)
(***************************************************************************)
MaxHours      == 10
MaxDays       == 4
MaxCompleted  == 7
MaxTotal      == 7
MaxWeek       == 10
MaxTotalWeeks == 9

Hours       == (-1)..MaxHours
DayNames    == {"Sunday", "Monday", "Wednesday", "Friday", "Funday"}
DayLists    == UNION {[1..n -> DayNames] : n \in 0..MaxDays}
Preferences == {"morning", "afternoon", "evening", "night"}

\* session counts: the small ones, the pair of test_progress_tool, and one
\* pair a hair above 90%
CompletedCounts == (0..MaxCompleted) \cup {15, 1801}
TotalCounts     == (0..MaxTotal) \cup {40, 2001}

NoCall   == [op |-> "none"]
\* the calls of the two model-backed tools
Skills        == {"Python", "Chess"}
DurationWeeks == {4, 12}
Topics        == {"Loops"}

\* what the generative model may answer to a request
Replies ==
    {[kind |-> "raise", error |-> "ServiceUnavailable"],
     [kind |-> "blocked", error |-> "ValueError"]}
    \cup {[kind |-> "text", text |-> t] : t \in ResponseTexts}
NoReply == [kind |-> "none"]

\* chat_with_agent: messages, agent responses, and given histories
MaxHistory == 2
Messages   == {"hi", "plan chess"}
Responses  == {"hello", "here is a plan"}
Entries    == {UserEntry("hi"), AssistantEntry("hello"), UserEntry("plan chess")}
None       == [given |-> FALSE]
Histories  ==
    {None} \cup {[given |-> TRUE, items |-> h] :
                    h \in UNION {[1..n -> Entries] : n \in 0..MaxHistory}}
NoFrame    == [obj |-> "none", items |-> <<>>]

\* write_markdown_file: file names and contents (hi, e acute, euro sign and
\* grinning face)
Filenames == {<<"a">>, <<"p">>, <<"p", "/", "a">>}
Contents  == {<<104, 105>>, <<233>>, <<8364, 128512>>}

VARIABLES pc, call, ret, requests, reply, callerList, frame, disk, artifacts
vars == <<pc, call, ret, requests, reply, callerList, frame, disk, artifacts>>

\* pc: "idle", "model" (a tool waits for the generative model), "agent"
\* (chat_with_agent waits for the agent), "save" (write_markdown_file waits
\* for the artifact service), "done"
Init ==
    /\ pc = "idle"
    /\ call = NoCall
    /\ ret = NoResult
    /\ requests = 0
    /\ reply = NoReply
    /\ callerList = None
    /\ frame = NoFrame
    /\ disk = [dirs |-> {}, files |-> {}]
    /\ artifacts = {}

CallSchedule ==
    /\ pc = "idle"
    /\ \E h \in Hours, d \in DayLists, p \in Preferences :
          /\ call' = [op |-> "suggest_study_schedule_tool",
                      available_hours |-> h, preferred_days |-> d,
                      time_preference |-> p]
          /\ ret' = suggest_study_schedule_tool(h, d, p)
    /\ pc' = "done"
    /\ UNCHANGED <<requests, reply, callerList, frame, disk, artifacts>>

CallAnalyze ==
    /\ pc = "idle"
    /\ \E c \in CompletedCounts, t \in TotalCounts,
          w \in 0..MaxWeek, n \in 0..MaxTotalWeeks :
          /\ call' = [op |-> "analyze_learning_progress_tool",
                      completed_sessions |-> c, total_sessions |-> t,
                      current_week |-> w, total_weeks |-> n]
          /\ ret' = analyze_learning_progress_tool(c, t, w, n)
    /\ pc' = "done"
    /\ UNCHANGED <<requests, reply, callerList, frame, disk, artifacts>>

\* generate_learning_plan_tool up to model.generate_content(prompt)
CallGeneratePlan ==
    /\ pc = "idle"
    /\ \E s \in Skills, w \in DurationWeeks :
          call' = [op |-> "generate_learning_plan_tool",
                   skill |-> s, duration_weeks |-> w]
    /\ pc' = "model"
    /\ requests' = requests + 1
    /\ UNCHANGED <<ret, reply, callerList, frame, disk, artifacts>>

\* get_learning_resources_tool up to model.generate_content(prompt)
CallResources ==
    /\ pc = "idle"
    /\ \E s \in Skills, t \in Topics :
          call' = [op |-> "get_learning_resources_tool",
                   skill |-> s, topic |-> t]
    /\ pc' = "model"
    /\ requests' = requests + 1
    /\ UNCHANGED <<ret, reply, callerList, frame, disk, artifacts>>

\* the generative model answers and the tool runs to its return
ModelReply ==
    /\ pc = "model"
    /\ \E r \in Replies :
          /\ reply' = r
          /\ pc' = AfterReply(call, r, requests).pc
          /\ requests' = AfterReply(call, r, requests).requests
          /\ ret' = AfterReply(call, r, requests).ret
    /\ UNCHANGED <<call, callerList, frame, disk, artifacts>>

\* chat_with_agent up to timetable_agent.run: the context is built and the
\* user message appended to it
CallChat ==
    /\ pc = "idle"
    /\ \E m \in Messages, h \in Histories :
          /\ call' = [op |-> "chat_with_agent", message |-> m,
                      conversation_history |-> h]
          /\ IF BuildContext(h).obj = "caller"
             THEN /\ callerList' = [given |-> TRUE,
                                    items |-> Append(BuildContext(h).items, UserEntry(m))]
                  /\ frame' = [obj |-> "caller", items |-> <<>>]
             ELSE /\ callerList' = h
                  /\ frame' = [obj |-> "fresh",
                               items |-> Append(BuildContext(h).items, UserEntry(m))]
    /\ pc' = "agent"
    /\ requests' = requests + 1
    /\ UNCHANGED <<ret, reply, disk, artifacts>>

\* the context list of the running chat_with_agent
Context == IF frame.obj = "caller" THEN callerList.items ELSE frame.items

\* timetable_agent.run returns: the response is appended and the dict returned
AgentResponds ==
    /\ pc = "agent"
    /\ \E r \in Responses :
          /\ reply' = [kind |-> "text", text |-> r]
          /\ IF frame.obj = "caller"
             THEN /\ callerList' = [callerList EXCEPT
                                      !.items = Append(@, AssistantEntry(r))]
                  /\ UNCHANGED frame
             ELSE /\ frame' = [frame EXCEPT !.items = Append(@, AssistantEntry(r))]
                  /\ UNCHANGED callerList
          /\ ret' = [raised |-> FALSE,
                     value  |-> [success |-> TRUE, response |-> r,
                                 conversation_history |->
                                     Append(Context, AssistantEntry(r))]]
    /\ pc' = "done"
    /\ UNCHANGED <<call, requests, disk, artifacts>>

\* timetable_agent.run raises: the except clause returns
AgentRaises ==
    /\ pc = "agent"
    /\ reply' = [kind |-> "raise", error |-> "AgentError"]
    /\ ret' = CaughtException("AgentError", "Failed to get agent response")
    /\ pc' = "done"
    /\ UNCHANGED <<call, requests, callerList, frame, disk, artifacts>>

\* write_markdown_file up to await tool_context.save_artifact
CallWrite ==
    /\ pc = "idle"
    /\ \E f \in Filenames, c \in Contents :
          /\ call' = [op |-> "write_markdown_file", filename |-> f, content |-> c]
          /\ pc' = WriteToDisk(disk, f, c).pc
          /\ disk' = WriteToDisk(disk, f, c).disk
          /\ ret' = WriteToDisk(disk, f, c).ret
    /\ UNCHANGED <<requests, reply, callerList, frame, artifacts>>

\* save_artifact completes: the status dict is returned
ArtifactSaved ==
    /\ pc = "save"
    /\ artifacts' = SaveArtifact(artifacts, call.filename, call.content)
    /\ ret' = WriteStatus(call.filename, call.content)
    /\ pc' = "done"
    /\ UNCHANGED <<call, requests, reply, callerList, frame, disk>>

\* save_artifact raises: the exception leaves write_markdown_file
ArtifactFails ==
    /\ pc = "save"
    /\ ret' = [raised |-> TRUE, exc |-> "ArtifactError"]
    /\ pc' = "done"
    /\ UNCHANGED <<call, requests, reply, callerList, frame, disk, artifacts>>

\* the caller takes the result (or the exception) and may call again; the
\* disk and the artifact store outlive the call
Return ==
    /\ pc = "done"
    /\ pc' = "idle"
    /\ call' = NoCall
    /\ ret' = NoResult
    /\ requests' = 0
    /\ reply' = NoReply
    /\ callerList' = None
    /\ frame' = NoFrame
    /\ UNCHANGED <<disk, artifacts>>

Next ==
    \/ CallSchedule \/ CallAnalyze
    \/ CallGeneratePlan \/ CallResources \/ ModelReply
    \/ CallChat \/ AgentResponds \/ AgentRaises
    \/ CallWrite \/ ArtifactSaved \/ ArtifactFails
    \/ Return
Spec == Init /\ [][Next]_vars

NextSchedule == CallSchedule \/ Return
SpecSchedule == Init /\ [][NextSchedule]_vars

NextAnalyze == CallAnalyze \/ Return
SpecAnalyze == Init /\ [][NextAnalyze]_vars

NextModelTools == CallGeneratePlan \/ CallResources \/ ModelReply \/ Return
SpecModelTools == Init /\ [][NextModelTools]_vars

NextChat == CallChat \/ AgentResponds \/ AgentRaises \/ Return
SpecChat == Init /\ [][NextChat]_vars

\* the three operations that go through the generative model
NextModelBacked ==
    \/ CallGeneratePlan \/ CallResources \/ ModelReply
    \/ CallChat \/ AgentResponds \/ AgentRaises
    \/ Return
SpecModelBacked == Init /\ [][NextModelBacked]_vars

NextWrite == CallWrite \/ ArtifactSaved \/ ArtifactFails \/ Return
SpecWrite == Init /\ [][NextWrite]_vars

(***************************************************************************)
(* Properties of suggest_study_schedule_tool, checked under SpecSchedule.  *)
(***************************************************************************)
ScheduleDone == pc = "done" /\ call.op = "suggest_study_schedule_tool"

Min(a, b) == IF a < b THEN a ELSE b

\* C1: for available_hours >= 0 and a non-empty preferred_days the schedule
\* has exactly min(floor(available_hours / 2), len(preferred_days)) sessions,
\* every session has duration 2, and sessionsPerWeek is the schedule length.
C1_SessionCount ==
    (ScheduleDone /\ call.available_hours >= 0 /\ Len(call.preferred_days) > 0) =>
        /\ ~ret.raised
        /\ Len(ret.value.schedule) =
               Min(call.available_hours \div 2, Len(call.preferred_days))
        /\ \A i \in 1..Len(ret.value.schedule) : ret.value.schedule[i].duration = 2
        /\ ret.value.sessionsPerWeek = Len(ret.value.schedule)

\* C1 witness: five hours over three days gave two sessions
C1_Witness ==
    /\ ScheduleDone
    /\ call.available_hours = 5
    /\ Len(call.preferred_days) = 3
    /\ Len(ret.value.schedule) = 2
    /\ ret.value.sessionsPerWeek = 2

\* C2: suggest_study_schedule_tool(10, ["Monday", "Wednesday", "Friday"],
\* "morning") returns success with exactly the three sessions (Monday, 1,
\* 9:00 AM to 11:00 AM), (Wednesday, 3, 10:00 AM to 12:00 PM), (Friday, 5,
\* 11:00 AM to 1:00 PM), in this order.
C2_MorningExample ==
    (/\ ScheduleDone
     /\ call.available_hours = 10
     /\ call.preferred_days = <<"Monday", "Wednesday", "Friday">>
     /\ call.time_preference = "morning") =>
        /\ ~ret.raised
        /\ ret.value.success
        /\ ret.value.schedule =
             << [day |-> 1, dayName |-> "Monday", duration |-> 2,
                 startTime |-> <<"9", ":", "0", "0", " ", "A", "M">>,
                 endTime   |-> <<"1", "1", ":", "0", "0", " ", "A", "M">>],
                [day |-> 3, dayName |-> "Wednesday", duration |-> 2,
                 startTime |-> <<"1", "0", ":", "0", "0", " ", "A", "M">>,
                 endTime   |-> <<"1", "2", ":", "0", "0", " ", "P", "M">>],
                [day |-> 5, dayName |-> "Friday", duration |-> 2,
                 startTime |-> <<"1", "1", ":", "0", "0", " ", "A", "M">>,
                 endTime   |-> <<"1", ":", "0", "0", " ", "P", "M">>] >>

\* the hour and the AM/PM suffix that a time string reads as
HourOf(t) == ParseInt(Split(t, ":")[1])
SuffixOf(t) == Split(t, " ")[2]

\* C3 as stated: the end time of every session is the start hour h plus 2,
\* less 12 if h + 2 > 12, with the suffix of the start time in both cases.
C3_SuffixKept ==
    ScheduleDone =>
        \A i \in 1..Len(ret.value.schedule) :
            LET x == ret.value.schedule[i]
                h == HourOf(x.startTime)
            IN  /\ HourOf(x.endTime) = (IF h + 2 > 12 THEN h + 2 - 12 ELSE h + 2)
                /\ SuffixOf(x.endTime) = SuffixOf(x.startTime)

\* C3 as amended: the end hour is h + 2, less 12 if h + 2 > 12; the end suffix
\* is PM if h + 2 > 12 and the suffix of the start time otherwise; the end
\* time is written "<hour>:00 <suffix>".
C3_SuffixPMOnWrap ==
    ScheduleDone =>
        \A i \in 1..Len(ret.value.schedule) :
            LET x == ret.value.schedule[i]
                h == HourOf(x.startTime)
            IN  /\ HourOf(x.endTime) = (IF h + 2 > 12 THEN h + 2 - 12 ELSE h + 2)
                /\ SuffixOf(x.endTime) =
                       (IF h + 2 > 12 THEN <<"P", "M">> ELSE SuffixOf(x.startTime))
                /\ Split(x.endTime, ":")[2] = <<"0", "0", " ">> \o SuffixOf(x.endTime)

\* C3 witness: a session that starts at 11:00 AM and ends past 12
C3_Witness ==
    /\ ScheduleDone
    /\ \E i \in 1..Len(ret.value.schedule) :
          /\ ret.value.schedule[i].startTime =
                 <<"1", "1", ":", "0", "0", " ", "A", "M">>
          /\ ret.value.schedule[i].endTime = <<"1", ":", "0", "0", " ", "P", "M">>

\* C4: with available_hours < 2 or an empty preferred_days the call returns
\* success with an empty schedule and sessionsPerWeek 0, whatever the time
\* preference.
C4_DegenerateInput ==
    (ScheduleDone /\ (call.available_hours < 2 \/ call.preferred_days = <<>>)) =>
        /\ ~ret.raised
        /\ ret.value.success
        /\ ret.value.schedule = <<>>
        /\ ret.value.sessionsPerWeek = 0

\* C4 witness: hours enough for sessions and no day to put them on
C4_Witness ==
    /\ ScheduleDone
    /\ call.available_hours >= 2
    /\ call.preferred_days = <<>>
    /\ call.time_preference = "night"
    /\ ~ret.raised
    /\ ret.value.schedule = <<>>

WeekdayNames ==
    {"Sunday", "Monday", "Tuesday", "Wednesday", "Thursday", "Friday", "Saturday"}

\* C5: a time preference other than morning, afternoon, evening gives the
\* sessions that "morning" gives; a weekday name outside Sunday..Saturday gives
\* day 1 with dayName the given string; every session has day in 0..6.
C5_SilentFallback ==
    ScheduleDone =>
        /\ ~ret.raised
        /\ call.time_preference \notin {"morning", "afternoon", "evening"} =>
               ret.value.schedule =
                   suggest_study_schedule_tool(call.available_hours,
                       call.preferred_days, "morning").value.schedule
        /\ \A i \in 1..Len(ret.value.schedule) :
               LET x == ret.value.schedule[i]
               IN  /\ x.dayName = call.preferred_days[i]
                   /\ x.dayName \notin WeekdayNames => x.day = 1
                   /\ x.day \in 0..6

\* C5 witness: an unknown preference and an unknown weekday in one call
C5_Witness ==
    /\ ScheduleDone
    /\ call.time_preference = "night"
    /\ \E i \in 1..Len(ret.value.schedule) :
          /\ ret.value.schedule[i].dayName = "Funday"
          /\ ret.value.schedule[i].day = 1

(***************************************************************************)
(* Properties of analyze_learning_progress_tool, checked under SpecAnalyze.*)
(***************************************************************************)
AnalyzeDone == pc = "done" /\ call.op = "analyze_learning_progress_tool"

\* the call returned a report (it did not raise)
Reported == AnalyzeDone /\ ~ret.raised

\* x <= y on floats
FLeq(x, y) == ~FLess(y, x)

\* C6: the call returns a report for all arguments >= 0, total_sessions = 0
\* and total_weeks = 0 included, with completionRate 0 when total_sessions = 0
\* and weekProgress 0 when total_weeks = 0.
C6_TotalOnZero ==
    AnalyzeDone =>
        /\ ~ret.raised
        /\ call.total_sessions = 0 => ret.value.completionRate = FromInt(0)
        /\ call.total_weeks = 0 => ret.value.weekProgress = FromInt(0)

\* C7 as stated: in every report, whatever the relation of completed_sessions
\* to total_sessions and of current_week to total_weeks, completionRate and
\* weekProgress lie in [0, 100].
C7_PercentInRange ==
    Reported =>
        /\ FLeq(FromInt(0), ret.value.completionRate)
        /\ FLeq(ret.value.completionRate, FromInt(100))
        /\ FLeq(FromInt(0), ret.value.weekProgress)
        /\ FLeq(ret.value.weekProgress, FromInt(100))

\* C7 as amended: in every report completionRate and weekProgress are >= 0;
\* completionRate <= 100 when completed_sessions <= total_sessions, and
\* weekProgress <= 100 when current_week <= total_weeks.
C7_PercentInRangeWhenWithinTotals ==
    Reported =>
        /\ FLeq(FromInt(0), ret.value.completionRate)
        /\ FLeq(FromInt(0), ret.value.weekProgress)
        /\ call.completed_sessions <= call.total_sessions =>
               FLeq(ret.value.completionRate, FromInt(100))
        /\ call.current_week <= call.total_weeks =>
               FLeq(ret.value.weekProgress, FromInt(100))

\* C7 witness: three of seven sessions in week 2 of 3, 42.86 and 66.67
C7_Witness ==
    /\ Reported
    /\ call.completed_sessions = 3 /\ call.total_sessions = 7
    /\ call.current_week = 2 /\ call.total_weeks = 3
    /\ ret.value.completionRate = FDivInt(4286, 100)
    /\ ret.value.weekProgress = FDivInt(6667, 100)

\* C8: for total_weeks > 0, onTrack is true exactly when completed_sessions >=
\* 0.9 * (current_week / total_weeks) * total_sessions, that is when
\* 10 * completed_sessions * total_weeks >= 9 * current_week * total_sessions.
C8_OnTrackExact ==
    (Reported /\ call.total_weeks > 0) =>
        (ret.value.onTrack <=>
            10 * call.completed_sessions * call.total_weeks
                >= 9 * call.current_week * call.total_sessions)

\* the label that the thresholds 90 and 70 give to a rate
LabelOf(above90, above70) ==
    IF above90 THEN "Excellent" ELSE IF above70 THEN "Good" ELSE "Needs Attention"

\* C9 as stated: status is the label of the returned completionRate (the rate
\* rounded to 2 decimals): "Excellent" above 90, else "Good" above 70, else
\* "Needs Attention"; so never "Excellent" with 90.0 nor "Good" with 70.0.
C9_StatusOfRoundedRate ==
    Reported =>
        ret.value.status = LabelOf(FLess(FromInt(90), ret.value.completionRate),
                                   FLess(FromInt(70), ret.value.completionRate))

\* C9 as amended: status is the label of the unrounded rate completed_sessions
\* / total_sessions * 100 (0 when total_sessions is 0): "Excellent" when
\* 10 * completed > 9 * total, else "Good" when 10 * completed > 7 * total,
\* else "Needs Attention".
C9_StatusOfUnroundedRate ==
    Reported =>
        ret.value.status =
            LabelOf(call.total_sessions > 0
                        /\ 10 * call.completed_sessions > 9 * call.total_sessions,
                    call.total_sessions > 0
                        /\ 10 * call.completed_sessions > 7 * call.total_sessions)

\* C9 witness: 1801 of 2001 sessions is "Excellent" with completionRate 90.0
C9_Witness ==
    /\ Reported
    /\ call.completed_sessions = 1801 /\ call.total_sessions = 2001
    /\ ret.value.completionRate = FromInt(90)
    /\ ret.value.status = "Excellent"

C11_ProgressExample ==
    (/\ AnalyzeDone
     /\ call.completed_sessions = 15 /\ call.total_sessions = 40
     /\ call.current_week = 2 /\ call.total_weeks = 8) =>
        /\ ~ret.raised
        /\ ret.value.success
        /\ ret.value.completionRate = FDivInt(375, 10)
        /\ ret.value.weekProgress = FromInt(25)
        /\ ret.value.status = "Needs Attention"
        /\ ret.value.sessionsRemaining = 25
        /\ \E i \in 1..Len(ret.value.recommendations) :
               ret.value.recommendations[i] = RecReview
        /\ \A i \in 1..Len(ret.value.recommendations) :
               ret.value.recommendations[i] # RecExcellent

\* C11 witness: the call of the example has returned its report
C11_Witness ==
    /\ Reported
    /\ call.completed_sessions = 15 /\ call.total_sessions = 40
    /\ call.current_week = 2 /\ call.total_weeks = 8
    /\ ret.value.sessionsRemaining = 25

\* C15: session i of the schedule has dayName preferred_days[i] and startTime
\* entry i mod 3 of the pool of the time preference (the morning pool for an
\* unknown one); so a 4th session starts when the 1st does.
C15_DaysAndStartTimes ==
    ScheduleDone =>
        LET pool == IF call.time_preference \in {"afternoon", "evening"}
                    THEN time_slots[call.time_preference]
                    ELSE time_slots["morning"]
        IN  /\ \A i \in 1..Len(ret.value.schedule) :
                   /\ ret.value.schedule[i].dayName = call.preferred_days[i]
                   /\ ret.value.schedule[i].startTime = pool[((i - 1) % 3) + 1]
            /\ Len(ret.value.schedule) >= 4 =>
                   ret.value.schedule[4].startTime = ret.value.schedule[1].startTime

\* C15 witness: four evening sessions, the 4th at 6:00 PM again
C15_Witness ==
    /\ ScheduleDone
    /\ call.time_preference = "evening"
    /\ Len(ret.value.schedule) = 4
    /\ ret.value.schedule[4].startTime = <<"6", ":", "0", "0", " ", "P", "M">>
    /\ ret.value.schedule[3].startTime = <<"8", ":", "0", "0", " ", "P", "M">>

\* the argument tuples of analyze_learning_progress_tool that return a report
ReportingInputs ==
    CompletedCounts \X TotalCounts \X (0..MaxWeek) \X (1..MaxTotalWeeks)

\* the number of recommendations of the report for the arguments x
RecCount(x) ==
    Len(analyze_learning_progress_tool(x[1], x[2], x[3], x[4]).value.recommendations)

\* C16 as stated: the list of recommendations can have every length from 0 to
\* 4: some arguments make none of the four rules fire and some make all four.
C16_AnyLengthToFour ==
    pc = "idle" => \A k \in 0..4 : \E x \in ReportingInputs : RecCount(x) = k

\* C16 as amended: the rules are not mutually exclusive but rules a and c
\* are (the rate is not both < 70 and > 90), so a report has at most 3
\* recommendations; every length from 0 to 3 occurs.
C16_AnyLengthToThree ==
    /\ Reported =>
          /\ Len(ret.value.recommendations) <= 3
          /\ ~(/\ \E i \in 1..Len(ret.value.recommendations) :
                     ret.value.recommendations[i] = RecReview
               /\ \E i \in 1..Len(ret.value.recommendations) :
                     ret.value.recommendations[i] = RecExcellent)
    /\ pc = "idle" => \A k \in 0..3 : \E x \in ReportingInputs : RecCount(x) = k

\* C16 witness: no rule fires: 4 of 5 sessions done before the first week
C16_Witness ==
    /\ Reported
    /\ call.completed_sessions = 4 /\ call.total_sessions = 5
    /\ call.current_week = 0
    /\ ret.value.recommendations = <<>>

(***************************************************************************)
(* Properties of the model-backed operations, checked under                *)
(* SpecModelBacked, SpecModelTools and SpecChat.                           *)
(***************************************************************************)
ModelTools == {"generate_learning_plan_tool", "get_learning_resources_tool"}
ToolDone   == pc = "done" /\ call.op \in ModelTools
ChatDone   == pc = "done" /\ call.op = "chat_with_agent"

\* the forms in which the document doc is sent with a fence around it
Fenced(doc) ==
    {InJsonFence(doc), InPlainFence(doc),
     Padded(InJsonFence(doc)), Padded(InPlainFence(doc))}

\* the forms in which the document doc is sent without a fence
Unfenced(doc) == {Bare(doc), Padded(doc)}

\* the reply is a failed model call, or a text that is a document which is
\* not JSON, with or without a fence
ModelFailed ==
    \/ reply.kind \in {"raise", "blocked"}
    \/ /\ call.op \in ModelTools
       /\ reply.kind = "text"
       /\ \E d \in InvalidDocs : reply.text \in Fenced(d) \cup Unfenced(d)

\* the keys of the payload of a successful result
PayloadKeys ==
    IF call.op = "generate_learning_plan_tool" THEN {"plan"}
    ELSE IF call.op = "get_learning_resources_tool"
    THEN {"skill", "topic", "resources", "count"}
    ELSE {"response", "conversation_history"}

\* C12: generate_learning_plan_tool, get_learning_resources_tool and
\* chat_with_agent always return a result dict and let no exception escape:
\* when the model call fails or its text is not JSON the result has success
\* false with an error and a message, otherwise success true with the payload.
C12_Envelope ==
    (pc = "done" /\ call.op \in ModelTools \cup {"chat_with_agent"}) =>
        /\ ~ret.raised
        /\ IF ModelFailed
           THEN /\ ret.value.success = FALSE
                /\ DOMAIN ret.value = {"success", "error", "message"}
           ELSE /\ ret.value.success = TRUE
                /\ PayloadKeys \subseteq DOMAIN ret.value
                /\ "error" \notin DOMAIN ret.value

\* C12 witness: a truncated document in a json fence gave the failure dict of
\* generate_learning_plan_tool
C12_Witness ==
    /\ ToolDone
    /\ call.op = "generate_learning_plan_tool"
    /\ reply.kind = "text"
    /\ reply.text = InJsonFence(DocTruncated)
    /\ ~ret.raised
    /\ ret.value.success = FALSE
    /\ ret.value.error = "JSONDecodeError"
    /\ ret.value.message = "Failed to generate learning plan"

\* C14: one invocation of generate_learning_plan_tool or
\* get_learning_resources_tool makes at most one request to the generative
\* model: whatever the reply (a transport failure and a malformed text
\* included) the invocation is over with one request made, and the failure
\* dict is what it returns.
C14_AtMostOneRequest ==
    /\ requests <= 1
    /\ (pc = "model") => (call.op \in ModelTools /\ requests = 1)
    /\ ToolDone =>
          /\ requests = 1
          /\ ModelFailed => (~ret.raised /\ ret.value.success = FALSE)

\* C14 witness: the request failed in transport and the tool returned the
\* failure dict after that one request
C14_Witness ==
    /\ ToolDone
    /\ call.op = "get_learning_resources_tool"
    /\ reply.kind = "raise"
    /\ requests = 1
    /\ ret.value.success = FALSE
    /\ ret.value.error = "ServiceUnavailable"

\* the parsed document of a successful result
Payload ==
    IF call.op = "generate_learning_plan_tool" THEN ret.value.plan
    ELSE ret.value.resources

\* C17: a response that is valid JSON in a (fence)json or plain fence, with
\* whitespace around or not, is parsed to the value of the JSON without the
\* fence and gives success true; a response that is bare valid JSON is parsed
\* unchanged; a response that is not valid JSON after the stripping gives
\* success false.
C17_FenceStripping ==
    (ToolDone /\ reply.kind = "text") =>
        /\ \A d \in ValidDocs :
              reply.text \in Fenced(d) \cup Unfenced(d) =>
                  /\ ret.value.success = TRUE
                  /\ Payload = JsonLoads(d).v
        /\ ~JsonLoads(CleanMarkdown(Strip(reply.text))).ok =>
              ret.value.success = FALSE

\* C17, the part that holds: without a fence valid JSON is parsed unchanged,
\* with a fence valid JSON that has no three backquotes inside is parsed to
\* the same value, and text that is not JSON after the stripping fails
C17_FenceStrippingWithoutInnerFence ==
    (ToolDone /\ reply.kind = "text") =>
        /\ \A d \in ValidDocs :
              (\/ reply.text \in Unfenced(d)
               \/ reply.text \in Fenced(d) /\ Remove(d, Fence) = d) =>
                  /\ ret.value.success = TRUE
                  /\ Payload = JsonLoads(d).v
        /\ ~JsonLoads(CleanMarkdown(Strip(reply.text))).ok =>
              ret.value.success = FALSE

\* the fenced document of the C17 divergence: three backquotes inside a
\* string of the document are removed with the fence
C17_InnerFenceLost ==
    /\ ToolDone
    /\ call.op = "generate_learning_plan_tool"
    /\ reply.kind = "text"
    /\ reply.text = InJsonFence(DocFenceInString)
    /\ ret.value.success = TRUE
    /\ ret.value.plan = [t |-> "dict", items |-> (<<"a">> :> [t |-> "str", s |-> <<>>])]
    /\ JsonLoads(DocFenceInString).v =
           [t |-> "dict", items |-> (<<"a">> :> [t |-> "str", s |-> <<BQ, BQ, BQ>>])]

\* the given history of the running chat_with_agent, as a list
GivenItems ==
    IF call.conversation_history.given THEN call.conversation_history.items
    ELSE <<>>

\* the given history is a non-empty list
GivenNonEmpty ==
    call.conversation_history.given /\ call.conversation_history.items # <<>>

\* C18: on success the returned conversation_history is the given history,
\* then the user message, then the assistant response.  A given non-empty
\* list is extended in place, the user message before the agent is run, so
\* after a failed call it ends with the user message and has no assistant
\* entry for it; a history that is absent or empty is never modified.
C18_History ==
    call.op = "chat_with_agent" =>
        /\ (pc = "done" /\ ret.value.success) =>
              ret.value.conversation_history =
                  GivenItems \o <<UserEntry(call.message),
                                  AssistantEntry(ret.value.response)>>
        /\ GivenNonEmpty =>
              /\ pc = "agent" =>
                    callerList.items = GivenItems \o <<UserEntry(call.message)>>
              /\ (pc = "done" /\ ~ret.value.success) =>
                    callerList.items = GivenItems \o <<UserEntry(call.message)>>
              /\ (pc = "done" /\ ret.value.success) =>
                    callerList.items = ret.value.conversation_history
        /\ ~GivenNonEmpty => callerList = call.conversation_history

\* C18 witness: the agent failed and the caller's list of one entry has the
\* user message as its second and last
C18_Witness ==
    /\ ChatDone
    /\ call.message = "plan chess"
    /\ call.conversation_history.given
    /\ call.conversation_history.items = <<AssistantEntry("hello")>>
    /\ ret.value.success = FALSE
    /\ callerList.items = <<AssistantEntry("hello"), UserEntry("plan chess")>>

(***************************************************************************)
(* Properties of write_markdown_file, checked under SpecWrite.             *)
(***************************************************************************)
\* the number of bytes of one character in UTF-8
Utf8Width(cp) ==
    IF cp <= 127 THEN 1 ELSE IF cp <= 2047 THEN 2 ELSE IF cp <= 65535 THEN 3 ELSE 4

\* the UTF-8 byte length of a str
RECURSIVE Utf8Length(_)
Utf8Length(content) ==
    IF content = <<>> THEN 0
    ELSE Utf8Width(Head(content)) + Utf8Length(Tail(content))

\* the file of the call is on the disk, in a directory that exists, and holds
\* as many bytes as the content has in UTF-8
FileWritten ==
    /\ ParentDir(call.filename) \in disk.dirs \cup {<<".">>}
    /\ \E f \in disk.files :
          f[1] = call.filename /\ Len(f[2]) = Utf8Length(call.content)

\* the artifact of the call is in the store
ArtifactStored ==
    \E a \in artifacts :
        a[1] = call.filename /\ Len(a[2]) = Utf8Length(call.content)

\* C19: write_markdown_file makes the parent directories, writes the file,
\* then saves the artifact, then returns {status: "ok", filename, bytes} with
\* bytes the UTF-8 length of the content: while the save is awaited the file
\* is written and nothing is returned; the dict is returned only with the
\* file written and the artifact saved; when the save fails the file stays
\* and the exception reaches the caller.
C19_WriteOrder ==
    call.op = "write_markdown_file" =>
        /\ pc = "save" => (FileWritten /\ ret = NoResult)
        /\ (pc = "done" /\ ~ret.raised) =>
              /\ ret.value = [status |-> "ok", filename |-> call.filename,
                              bytes |-> Utf8Length(call.content)]
              /\ FileWritten
              /\ ArtifactStored
        /\ (pc = "done" /\ ret.raised /\ ret.exc = "ArtifactError") => FileWritten

\* C19 witness: the save of p/a failed: the directory p and the two bytes
\* of the one character are on the disk, and no dict was returned
C19_Witness ==
    /\ pc = "done"
    /\ call.op = "write_markdown_file"
    /\ call.filename = <<"p", "/", "a">>
    /\ call.content = <<233>>
    /\ ret.raised
    /\ ret.exc = "ArtifactError"
    /\ <<"p">> \in disk.dirs
    /\ <<<<"p", "/", "a">>, <<195, 169>>>> \in disk.files
====
